---- MODULE Spec2Model ----
(***************************************************************************)
(* A model of homework_ai.py: the question-structure pipeline of           *)
(* SmartHomeworkProcessor (oracle call with retries, JSON extraction,      *)
(* regex fallback, prefix grouping, element matching, answer aggregation)  *)
(* and the file handler SmartFileHandler.                                  *)
(*                                                                         *)
(* JSON values decoded from the oracle are modelled as follows: an object  *)
(* is a TLA+ record whose domain is the set of keys present, a list is a   *)
(* sequence, a string that the code inspects character by character (an    *)
(* id) is a sequence of one-character strings, a text is a sequence of     *)
(* words, and a value that is not an object where the code expects one is  *)
(* the record NonObject. Where the code meets a value of either of two     *)
(* JSON types the value carries its type as the one key of a record:       *)
(* [int |-> 2], [str |-> <<"x">>], [list |-> <<...>>], [num |-> 5].        *)
(***************************************************************************)
EXTENDS Integers, Sequences, FiniteSets, TLC

VARIABLES
    gq_questions,   \* group_questions_by_prefix: the argument questions
    gq_i,           \* ... the number of fragments the for loop has consumed
    gq_problems,    \* ... the local problems (current is its last entry)
    gq_pc           \* ... "idle" | "loop" | "done"

groupVars == <<gq_questions, gq_i, gq_problems, gq_pc>>

VARIABLES
    jx_result,      \* JSON extraction: the oracle response (result / ai_resp)
    jx_json_str,    \* ... the local json_str
    jx_parsed,      \* ... what json.loads returned: "none" | "object" | "other"
    jx_pc           \* ... "idle" | "check" | "select" | "loads" | "ok" | "except"

jsonVars == <<jx_result, jx_json_str, jx_parsed, jx_pc>>

VARIABLES
    api_messages,   \* safe_api_call: the argument `messages`
    api_attempt,    \* ... the loop variable `attempt` (0-based)
    api_calls,      \* ... the number of client.chat.completions.create calls made
    api_sleeps,     \* ... the number of time.sleep(API_RETRY_DELAY) calls made
    api_failed,     \* ... the number of attempts that raised
    api_result,     \* ... the value returned
    api_pc          \* ... "idle" | "try" | "failed" | "sleep" | "returned"

apiVars == <<api_messages, api_attempt, api_calls, api_sleeps, api_failed, api_result, api_pc>>

VARIABLES
    id_elements,    \* identify_questions_structure: the argument `elements`
    id_content,     \* ... `content`: what build_multimodal_content rendered
    id_result,      \* ... `result`: the text safe_api_call returned, with the value
                    \*     json.loads gives for a json_str that is one object
    id_calls,       \* ... the number of safe_api_call invocations made
    id_problems,    \* ... the value returned
    id_pc           \* ... "idle" | "sort" | "call" | "parse" | "done"

identifyVars == <<id_elements, id_content, id_result, id_calls, id_problems, id_pc>>

VARIABLES
    mt_problems_info,   \* match_questions_with_elements: the argument `problems_info`
    mt_elements,        \* ... the argument `elements`
    mt_i,               \* ... the number of problems the for loop has consumed
    mt_matched,         \* ... the local `matched_problems`
    mt_pc               \* ... "idle" | "loop" | "done" | "raised"

matchVars == <<mt_problems_info, mt_elements, mt_i, mt_matched, mt_pc>>

VARIABLES
    an_problems,    \* answer_questions: the argument `problems`
    an_i,           \* ... the number of problems the for loop has finished
    an_resp,        \* ... `ai_resp` of the current problem
    an_calls,       \* ... the number of safe_api_call invocations made
    an_results,     \* ... the local `all_results`
    an_pc           \* ... "idle" | "call" | "parse" | "done" | "raised"

answerVars == <<an_problems, an_i, an_resp, an_calls, an_results, an_pc>>

VARIABLES
    pl_pc,          \* process_homework_complete: "idle" | "extract" | "identify" |
                    \* "match" | "answer" | "returned" | "raised"
    pl_extracted,   \* ... what extract_page_elements returned, in its order
    pl_ret          \* ... the value it returned

pipelineVars == <<pl_pc, pl_extracted, pl_ret>>

VARIABLES
    h_files,        \* SmartFileHandler: self.processing_files
    h_fs,           \* ... the files that exist
    h_pc,           \* ... per handler thread: "idle" | "check" | "add" | "rename" |
                    \* "run" | "save" | "move" | "finally" | "raised"
    h_path,         \* ... per handler thread: the argument file_path
    h_exc           \* ... per handler thread: an exception is propagating

handlerVars == <<h_files, h_fs, h_pc, h_path, h_exc>>

vars == <<groupVars, jsonVars, apiVars, identifyVars, matchVars, answerVars, pipelineVars,
          handlerVars>>

\* what each component leaves alone
groupOthers == <<jsonVars, apiVars, identifyVars, matchVars, answerVars, pipelineVars, handlerVars>>
jsonOthers == <<groupVars, apiVars, identifyVars, matchVars, answerVars, pipelineVars, handlerVars>>
apiOthers == <<groupVars, jsonVars, identifyVars, matchVars, answerVars, pipelineVars, handlerVars>>
identifyOthers == <<groupVars, jsonVars, apiVars, matchVars, answerVars, pipelineVars, handlerVars>>
matchOthers == <<groupVars, jsonVars, apiVars, identifyVars, answerVars, pipelineVars, handlerVars>>
handlerOthers ==
    <<groupVars, jsonVars, apiVars, identifyVars, matchVars, answerVars, pipelineVars>>
answerOthers == <<groupVars, jsonVars, apiVars, identifyVars, matchVars, pipelineVars, handlerVars>>

---------------------------------------------------------------------------
(* Generic helpers *)

\* dict.get(key, default) on a decoded JSON object
Get(d, k, default) == IF k \in DOMAIN d THEN d[k] ELSE default

\* a decoded JSON value that is not an object (a number, a string, a list)
NonObject == [nonobject |-> TRUE]

IsDict(x) == "nonobject" \notin DOMAIN x

\* a decoded JSON value that is a list
IsList(v) == "list" \in DOMAIN v

\* what iterating a decoded value yields: the entries of a list, the
\* characters of a string (none of them an object)
Items(v) == IF IsList(v) THEN v.list ELSE [k \in 1..Len(v.str) |-> NonObject]

RECURSIVE SeqsUpTo(_, _)
SeqsUpTo(S, n) ==
    IF n = 0 THEN {<<>>}
    ELSE LET shorter == SeqsUpTo(S, n - 1)
         IN  shorter \cup {Append(s, x) : s \in {t \in shorter : Len(t) = n - 1}, x \in S}

RECURSIVE Concat(_)
Concat(ss) == IF ss = <<>> THEN <<>> ELSE Head(ss) \o Concat(Tail(ss))

Last(s) == s[Len(s)]

---------------------------------------------------------------------------
(* Prefix grouping: group_questions_by_prefix *)

Digits == {"1", "2"}

\* the longest prefix of qid made of digits: what re.match(r'(\d+)', qid) captures
RECURSIVE LeadingDigits(_)
LeadingDigits(qid) ==
    IF qid = <<>> \/ Head(qid) \notin Digits THEN <<>>
    ELSE <<Head(qid)>> \o LeadingDigits(Tail(qid))

\* extract_prefix: m.group(1) if m else str(qid)
extract_prefix(qid) ==
    IF LeadingDigits(qid) # <<>> THEN LeadingDigits(qid) ELSE qid

\* the mutant: a fragment joins the open problem unless its prefix was never seen
starts_new_problem_seen(problems, pid) ==
    problems = <<>> \/ \A k \in 1..Len(problems) : problems[k].id # pid

\* current is None or current["id"] != pid
starts_new_problem(problems, pid) ==
    problems = <<>> \/ Last(problems).id # pid

\* the sub dict built from a fragment q
make_sub(q) ==
    [ id               |-> Get(q, "id", <<>>),
      text             |-> Get(q, "text", <<>>),
      related_elements |-> Get(q, "related_elements", <<>>),
      pages            |-> Get(q, "pages", <<>>) ]

\* one iteration of for q in questions
group_step(problems, q) ==
    LET pid == extract_prefix(Get(q, "id", <<>>))
    IN  IF starts_new_problem(problems, pid)
        THEN Append(problems,
                    [ id |-> pid, text |-> <<>>, related_elements |-> <<>>,
                      pages |-> <<>>, subquestions |-> <<make_sub(q)>> ])
        ELSE [problems EXCEPT ![Len(problems)].subquestions = Append(@, make_sub(q))]

RECURSIVE group_from(_, _)
group_from(problems, questions) ==
    IF questions = <<>> THEN problems
    ELSE group_from(group_step(problems, Head(questions)), Tail(questions))

\* q.get raises AttributeError on an entry that is not an object
group_raises(questions) == \E k \in 1..Len(questions) : ~IsDict(questions[k])

group_questions_by_prefix(questions) == group_from(<<>>, questions)

\* --- the inputs of the grouping specification
MaxFrags == 3

FragIds == { <<>>, <<"1">>, <<"2">>, <<"1", "a">>, <<"1", "2">>, <<"2", "b">>,
             <<"a">>, <<"b">>, <<"a", "1">> }

Fragments ==
    { [id |-> i, text |-> <<"t">>, related_elements |-> <<>>, pages |-> <<[int |-> 1]>>] : i \in FragIds }
    \cup { [text |-> <<"t">>, related_elements |-> <<>>, pages |-> <<[int |-> 1]>>] }
    \cup { [id |-> <<"1", "a">>] }

Frag(i) == [id |-> i, text |-> <<"t">>, related_elements |-> <<>>, pages |-> <<[int |-> 1]>>]

ExampleFrags ==
    << Frag(<<"1">>), Frag(<<"1", "a">>), Frag(<<"2">>), Frag(<<"2", "b">>),
       Frag(<<"1", "c">>) >>

GroupIdle ==
    /\ gq_questions = <<>>
    /\ gq_i = 0
    /\ gq_problems = <<>>
    /\ gq_pc = "idle"

GroupInit ==
    /\ gq_questions \in SeqsUpTo(Fragments, MaxFrags) \cup {ExampleFrags}
    /\ gq_i = 0
    /\ gq_problems = <<>>
    /\ gq_pc = "loop"

GroupIter ==
    /\ gq_pc = "loop"
    /\ gq_i < Len(gq_questions)
    /\ gq_problems' = group_step(gq_problems, gq_questions[gq_i + 1])
    /\ gq_i' = gq_i + 1
    /\ UNCHANGED <<gq_questions, gq_pc, groupOthers>>

GroupReturn ==
    /\ gq_pc = "loop"
    /\ gq_i = Len(gq_questions)
    /\ gq_pc' = "done"
    /\ UNCHANGED <<gq_questions, gq_i, gq_problems, groupOthers>>

---------------------------------------------------------------------------
(* Resilient JSON extraction: the try block shared by                      *)
(* identify_questions_structure and answer_questions.                      *)
(* An oracle response is a sequence of tokens: the json marker that opens  *)
(* a fenced block, the fence that closes it, the braces, "m" (a            *)
(* well-formed member of an object), "5" (a JSON text that is not an       *)
(* object), "w" (prose), " " (white space) and the failure mark that opens *)
(* the sentinel of safe_api_call.                                          *)

FenceJson == "<fence-json>"
Fence == "<fence>"
FailMark == "X"
WhiteSpace == {" ", "\n"}

\* the return value of safe_api_call after the last failed attempt
Sentinel == <<FailMark, "w">>

\* str.find / str.rfind of a one-token needle: 0-based, -1 when absent
Find(s, tok) ==
    IF \E k \in 1..Len(s) : s[k] = tok
    THEN (CHOOSE k \in 1..Len(s) : s[k] = tok /\ \A j \in 1..(k - 1) : s[j] # tok) - 1
    ELSE -1

RFind(s, tok) ==
    IF \E k \in 1..Len(s) : s[k] = tok
    THEN (CHOOSE k \in 1..Len(s) : s[k] = tok /\ \A j \in (k + 1)..Len(s) : s[j] # tok) - 1
    ELSE -1

\* s[a:b] for b >= 0: a negative start counts from the end
PySlice(s, a, b) ==
    LET start == IF a < 0 THEN (IF Len(s) + a < 0 THEN 0 ELSE Len(s) + a) ELSE a
        stop  == IF b > Len(s) THEN Len(s) ELSE b
    IN  IF start >= stop THEN <<>> ELSE SubSeq(s, start + 1, stop)

\* str.strip()
RECURSIVE LStrip(_)
LStrip(s) == IF s # <<>> /\ Head(s) \in WhiteSpace THEN LStrip(Tail(s)) ELSE s

RECURSIVE RStrip(_)
RStrip(s) ==
    IF s # <<>> /\ Last(s) \in WhiteSpace THEN RStrip(SubSeq(s, 1, Len(s) - 1)) ELSE s

Strip(s) == RStrip(LStrip(s))

\* the positions (1-based) at which a triple backquote occurs: both fence tokens
FencePositions(s) == {k \in 1..Len(s) : s[k] \in {Fence, FenceJson}}

\* s.split(sep)[1] for sep the json marker, defined when the marker occurs
AfterFirstMarker(s) ==
    LET f    == Find(s, FenceJson) + 1
        rest == SubSeq(s, f + 1, Len(s))
        g    == Find(rest, FenceJson)
    IN  IF g = -1 THEN rest ELSE SubSeq(rest, 1, g)

\* s.split(fence)[0]
BeforeFirstFence(s) ==
    LET ps == FencePositions(s)
    IN  IF ps = {} THEN s
        ELSE SubSeq(s, 1, (CHOOSE k \in ps : \A j \in ps : k <= j) - 1)

\* the mutant: the first balanced object, not the span to the last brace
select_brace_span_first(result) ==
    PySlice(result, Find(result, "{"), Find(result, "}") + 1)

\* result[result.find("{"): result.rfind("}")+1]
select_brace_span(result) ==
    PySlice(result, Find(result, "{"), RFind(result, "}") + 1)

\* not result or result.startswith(<the failure mark>): the ValueError branch
invalid_return(result) == result = <<>> \/ Head(result) = FailMark

\* the if/else that sets json_str
select_json_str(result) ==
    IF Find(result, FenceJson) # -1
    THEN Strip(BeforeFirstFence(AfterFirstMarker(result)))
    ELSE Strip(select_brace_span(result))

\* json.loads: "object" for one object, "other" for another JSON text,
\* "error" for the JSONDecodeError
json_loads(json_str) ==
    LET t == Strip(json_str)
    IN  IF t = <<"5">> THEN "other"
        ELSE IF /\ Len(t) >= 2
                /\ t[1] = "{"
                /\ t[Len(t)] = "}"
                /\ \A k \in 2..(Len(t) - 1) : t[k] \in {"m"} \cup WhiteSpace
             THEN "object"
             ELSE "error"

\* --- the inputs of the extraction specification
MaxResp == 4

Tokens == {FenceJson, Fence, "{", "}", "m", "w", " ", "5"}

FencedExample ==
    <<"w", " ", FenceJson, " ", "{", "m", "}", " ", Fence, " ", "w">>

TwoObjectsExample ==
    <<"w", " ", "{", "m", "}", " ", "w", " ", "{", "m", "}">>

Responses ==
    SeqsUpTo(Tokens, MaxResp)
    \cup { FencedExample, TwoObjectsExample, Sentinel,
           <<FailMark, "{", "m", "}">>,
           <<FenceJson, "{", "m", "}", Fence, "{", "m", "}", FenceJson, "5", Fence>> }

JsonIdle ==
    /\ jx_result = <<>>
    /\ jx_json_str = <<>>
    /\ jx_parsed = "none"
    /\ jx_pc = "idle"

JsonInit ==
    /\ jx_result \in Responses
    /\ jx_json_str = <<>>
    /\ jx_parsed = "none"
    /\ jx_pc = "check"

\* if not result or result.startswith(...): raise ValueError
JsonCheck ==
    /\ jx_pc = "check"
    /\ jx_pc' = IF invalid_return(jx_result) THEN "except" ELSE "select"
    /\ UNCHANGED <<jx_result, jx_json_str, jx_parsed, jsonOthers>>

JsonSelect ==
    /\ jx_pc = "select"
    /\ jx_json_str' = select_json_str(jx_result)
    /\ jx_pc' = "loads"
    /\ UNCHANGED <<jx_result, jx_parsed, jsonOthers>>

\* parsed = json.loads(json_str); a JSONDecodeError reaches except Exception
JsonLoads ==
    /\ jx_pc = "loads"
    /\ LET r == json_loads(jx_json_str)
       IN  IF r = "error"
           THEN jx_pc' = "except" /\ UNCHANGED jx_parsed
           ELSE jx_pc' = "ok" /\ jx_parsed' = r
    /\ UNCHANGED <<jx_result, jx_json_str, jsonOthers>>

---------------------------------------------------------------------------
(* The oracle call contract: safe_api_call *)

API_RETRY_TIMES == 3

\* the mutant: the loop sleeps after every failed attempt, the last one too
sleeps_after_failure_always(attempt) == attempt < API_RETRY_TIMES

\* `if attempt < Config.API_RETRY_TIMES - 1`
sleeps_after_failure(attempt) == attempt < API_RETRY_TIMES - 1

\* what response.choices[0].message.content can be: any text, the empty one
\* and one that opens with the failure mark included, the sentinel excepted
MaxContent == 2

ApiContents == (SeqsUpTo(Tokens, MaxContent) \cup {<<FailMark>>}) \ {Sentinel}

ApiMessages == {"structure", "answer"}

ApiIdle ==
    /\ api_messages = "none"
    /\ api_attempt = 0
    /\ api_calls = 0
    /\ api_sleeps = 0
    /\ api_failed = 0
    /\ api_result = <<>>
    /\ api_pc = "idle"

ApiInit ==
    /\ api_messages \in ApiMessages
    /\ api_attempt = 0
    /\ api_calls = 0
    /\ api_sleeps = 0
    /\ api_failed = 0
    /\ api_result = <<>>
    /\ api_pc = "try"

\* the create call returns and its content is returned at once
ApiAttemptSucceeds ==
    /\ api_pc = "try"
    /\ api_attempt < API_RETRY_TIMES
    /\ \E content \in ApiContents : api_result' = content
    /\ api_calls' = api_calls + 1
    /\ api_pc' = "returned"
    /\ UNCHANGED <<api_messages, api_attempt, api_sleeps, api_failed, apiOthers>>

\* the create call (or reading its content) raises: `except Exception`
ApiAttemptFails ==
    /\ api_pc = "try"
    /\ api_attempt < API_RETRY_TIMES
    /\ api_calls' = api_calls + 1
    /\ api_failed' = api_failed + 1
    /\ api_pc' = "failed"
    /\ UNCHANGED <<api_messages, api_attempt, api_sleeps, api_result, apiOthers>>

\* the rest of the except block, then the next iteration
ApiAfterFailure ==
    /\ api_pc = "failed"
    /\ IF sleeps_after_failure(api_attempt)
       THEN api_pc' = "sleep" /\ UNCHANGED api_attempt
       ELSE api_pc' = "try" /\ api_attempt' = api_attempt + 1
    /\ UNCHANGED <<api_messages, api_calls, api_sleeps, api_failed, api_result, apiOthers>>

\* time.sleep(Config.API_RETRY_DELAY) returns
ApiSleep ==
    /\ api_pc = "sleep"
    /\ api_sleeps' = api_sleeps + 1
    /\ api_attempt' = api_attempt + 1
    /\ api_pc' = "try"
    /\ UNCHANGED <<api_messages, api_calls, api_failed, api_result, apiOthers>>

\* the loop is exhausted: return the sentinel
ApiExhausted ==
    /\ api_pc = "try"
    /\ api_attempt >= API_RETRY_TIMES
    /\ api_result' = Sentinel
    /\ api_pc' = "returned"
    /\ UNCHANGED <<api_messages, api_attempt, api_calls, api_sleeps, api_failed, apiOthers>>

\* every value safe_api_call can return
safe_api_call_returns == ApiContents \cup {Sentinel}

---------------------------------------------------------------------------
(* The element model and its ordering: PageElement, elements.sort *)

ImageTypes == {"image", "page_image"}

\* PageElement.__post_init__: center_y = (bbox[1] + bbox[3]) / 2, the boxes
\* of the model having an even top + bottom
CenterY(bbox) == (bbox[2] + bbox[4]) \div 2

PageElement(type, content, bbox, page_num) ==
    [ type |-> type, content |-> content, bbox |-> bbox, page_num |-> page_num,
      center_y |-> CenterY(bbox) ]

\* the sort key (x.page_num, x.center_y), compared as tuples
KeyLess(a, b) ==
    \/ a.page_num < b.page_num
    \/ a.page_num = b.page_num /\ a.center_y < b.center_y

\* the mutant: an element goes before the elements of equal key
RECURSIVE InsertSortedBeforeEqual(_, _)
InsertSortedBeforeEqual(sorted, e) ==
    IF sorted = <<>> THEN <<e>>
    ELSE IF ~KeyLess(Head(sorted), e) THEN <<e>> \o sorted
    ELSE <<Head(sorted)>> \o InsertSortedBeforeEqual(Tail(sorted), e)

\* list.sort is stable: an element goes after every element not greater than it
RECURSIVE InsertSorted(_, _)
InsertSorted(sorted, e) ==
    IF sorted = <<>> THEN <<e>>
    ELSE IF KeyLess(e, Head(sorted)) THEN <<e>> \o sorted
    ELSE <<Head(sorted)>> \o InsertSorted(Tail(sorted), e)

RECURSIVE SortFrom(_, _)
SortFrom(sorted, rest) ==
    IF rest = <<>> THEN sorted ELSE SortFrom(InsertSorted(sorted, Head(rest)), Tail(rest))

\* elements.sort(key=lambda x: (x.page_num, x.center_y))
SortElements(elements) == SortFrom(<<>>, elements)

IsSorted(elements) ==
    \A k \in 1..(Len(elements) - 1) : ~KeyLess(elements[k + 1], elements[k])

\* --- the elements of the model: a text block has the page's box, an image
\* the box of its own size
TextBox == <<0, 0, 8, 8>>

ImageBoxes == {<<0, 0, 4, 4>>, <<0, 0, 4, 12>>}

TextContents == {<<"q">>, <<"z">>}

ImagePayload == <<"i">>

---------------------------------------------------------------------------
(* Regex fallback recognition: parse_questions_regex.                      *)
(* A text is a sequence of characters; "<di>", "<ti>", "<dun>" and "<ju>"  *)
(* stand for the four CJK characters of the patterns.                      *)

Letters == {"a", "b", "c", "q", "z"}

DelimsNumber == {".", "<dun>", "<ju>", ")"}

DelimsAlnum == {".", "<dun>", ")"}

\* the value None
PyNone == <<"None">>

\* str.split on the newline
RECURSIVE SplitLines(_, _)
SplitLines(line, rest) ==
    IF rest = <<>> THEN <<line>>
    ELSE IF Head(rest) = "\n" THEN <<line>> \o SplitLines(<<>>, Tail(rest))
    ELSE SplitLines(Append(line, Head(rest)), Tail(rest))

AfterDigits(t) == SubSeq(t, Len(LeadingDigits(t)) + 1, Len(t))

HeadIn(t, S) == t # <<>> /\ Head(t) \in S

\* r'^(\d+)\s*[.<dun><ju>)]'
MatchNumber(line) ==
    IF LeadingDigits(line) # <<>> /\ HeadIn(LStrip(AfterDigits(line)), DelimsNumber)
    THEN LeadingDigits(line) ELSE PyNone

\* r'^<di>\s*(\d+)\s*<ti>'
MatchDiTi(line) ==
    IF /\ HeadIn(line, {"<di>"})
       /\ LeadingDigits(LStrip(Tail(line))) # <<>>
       /\ HeadIn(LStrip(AfterDigits(LStrip(Tail(line)))), {"<ti>"})
    THEN LeadingDigits(LStrip(Tail(line))) ELSE PyNone

\* r'^<ti>\s*(\d+)'
MatchTi(line) ==
    IF HeadIn(line, {"<ti>"}) /\ LeadingDigits(LStrip(Tail(line))) # <<>>
    THEN LeadingDigits(LStrip(Tail(line))) ELSE PyNone

\* r'^([0-9]+[a-zA-Z]?)\s*[.<dun>\)]'
MatchAlnum(line) ==
    LET d    == LeadingDigits(line)
        rest == AfterDigits(line)
    IN  IF d = <<>> THEN PyNone
        ELSE IF HeadIn(rest, Letters) /\ HeadIn(LStrip(Tail(rest)), DelimsAlnum)
             THEN Append(d, Head(rest))
        ELSE IF HeadIn(LStrip(rest), DelimsAlnum) THEN d
        ELSE PyNone

\* the first pattern of the list that matches decides the id
LineId(line) ==
    IF MatchNumber(line) # PyNone THEN MatchNumber(line)
    ELSE IF MatchDiTi(line) # PyNone THEN MatchDiTi(line)
    ELSE IF MatchTi(line) # PyNone THEN MatchTi(line)
    ELSE MatchAlnum(line)

\* text_content: the text elements' contents, each followed by a newline
RECURSIVE text_content(_)
text_content(elements) ==
    IF elements = <<>> THEN <<>>
    ELSE (IF Head(elements).type = "text" THEN Head(elements).content \o <<"\n">> ELSE <<>>)
         \o text_content(Tail(elements))

RECURSIVE questions_of_lines(_)
questions_of_lines(lines) ==
    IF lines = <<>> THEN <<>>
    ELSE LET line == Strip(Head(lines))
         IN  (IF line # <<>> /\ LineId(line) # PyNone
              THEN << [ id |-> LineId(line), text |-> line, related_elements |-> <<>>,
                        pages |-> <<[int |-> 1]>> ] >>
              ELSE <<>>)
             \o questions_of_lines(Tail(lines))

parse_questions_regex(elements) ==
    questions_of_lines(SplitLines(<<>>, text_content(elements)))

---------------------------------------------------------------------------
(* Structure inference: identify_questions_structure *)

JNull == [null |-> TRUE]

IsStr(v) == "str" \in DOMAIN v

\* the truth value Python gives a decoded JSON value
Truthy(v) ==
    IF IsList(v) THEN v.list # <<>>
    ELSE IF IsStr(v) THEN v.str # <<>>
    ELSE IF "num" \in DOMAIN v THEN v.num # 0
    ELSE FALSE

\* len(v) is defined
HasLen(v) == IsList(v) \/ IsStr(v)

Raised == [raised |-> TRUE]

Returned(v) == [raised |-> FALSE, value |-> v]

\* the mutant: the flat questions list is returned as it is, ungrouped
legacy_questions_ungrouped(parsed) ==
    IF group_raises(Get(parsed, "questions", JNull).list) THEN Raised
    ELSE Returned(Get(parsed, "questions", JNull))

\* lines 270-271: problems = self.group_questions_by_prefix(questions)
legacy_questions(parsed) ==
    IF group_raises(Get(parsed, "questions", JNull).list) THEN Raised
    ELSE Returned([list |-> group_questions_by_prefix(Get(parsed, "questions", JNull).list)])

\* the try block: what it returns, or that it raised
identify_try(result) ==
    IF invalid_return(result.text) THEN Raised
    ELSE IF json_loads(select_json_str(result.text)) # "object" THEN Raised
    ELSE LET parsed   == result.json
             declared == Get(parsed, "problems", JNull)
             problems == IF Truthy(declared) THEN declared ELSE [list |-> <<>>]
         IN  IF ~HasLen(problems) THEN Raised
             ELSE IF ~Truthy(problems) /\ IsList(Get(parsed, "questions", JNull))
                  THEN legacy_questions(parsed)
             ELSE Returned(problems)

\* the except block
identify_fallback(elements) ==
    [list |-> group_questions_by_prefix(parse_questions_regex(elements))]

\* --- the inputs of the structure-inference specification
Prob1 ==
    [ id |-> <<"1">>, text |-> <<"q">>, related_elements |-> <<[int |-> 0]>>,
      pages |-> <<[int |-> 1]>>,
      subquestions |->
        << [id |-> <<"1", "a">>, text |-> <<"q">>, related_elements |-> <<[int |-> 1]>>,
            pages |-> <<[int |-> 1]>>],
           [id |-> <<"1", "b">>, text |-> <<"z">>, pages |-> <<[int |-> 1]>>] >> ]

Prob2 ==
    [ id |-> <<"2">>, subquestions |-> << [id |-> <<"2">>, text |-> <<"z">>] >> ]

ProbNoSubs == [ id |-> <<"3">>, text |-> <<"q">> ]

ProbBadIndex ==
    [ id |-> <<"4">>, related_elements |-> <<[str |-> <<"x">>]>>,
      subquestions |-> << [id |-> <<"4", "a">>] >> ]

StructPayloads ==
    { [problems |-> [list |-> <<Prob1>>]],
      [problems |-> [list |-> <<Prob1, Prob2>>]],
      [problems |-> [list |-> <<Prob2, ProbNoSubs>>]],
      [problems |-> [list |-> <<ProbNoSubs>>]],
      [problems |-> [list |-> <<ProbBadIndex>>]],
      [problems |-> [list |-> <<Prob2, NonObject>>]],
      [problems |-> [str |-> <<"a", "b">>]],
      [problems |-> [num |-> 5]],
      [problems |-> [list |-> <<>>], questions |-> [list |-> ExampleFrags]],
      [problems |-> JNull, questions |-> [list |-> <<Frag(<<"a">>), Frag(<<"a">>)>>]],
      [questions |-> [list |-> <<Frag(<<"2">>), Frag(<<"2", "b">>)>>]],
      [questions |-> [list |-> <<>>]],
      [questions |-> [list |-> <<Frag(<<"1">>), NonObject>>]],
      [questions |-> [str |-> <<"a">>]],
      [problems |-> [list |-> <<Prob2>>], questions |-> [list |-> <<Frag(<<"1">>)>>]],
      [other |-> JNull] }

ObjectTexts == { <<"{", "m", "}">>, FencedExample, <<"w", "{", "m", "}", " ">> }

UnparsedTexts ==
    { <<>>, Sentinel, <<"w">>, TwoObjectsExample, <<FenceJson, "5", Fence>>,
      <<FailMark, "{", "m", "}">>, <<"}", "w", "{">> }

StructResponses ==
    { [text |-> t, json |-> j] : t \in ObjectTexts, j \in StructPayloads }
    \cup { [text |-> t, json |-> [problems |-> [list |-> <<Prob1>>]]] : t \in UnparsedTexts }

RegexTexts ==
    { <<"1", ".", "q", "\n", " ", "1", "a", ")", "z">>,
      <<"<di>", "2", "<ti>", "\n", "q", "\n", "<ti>", " ", "1", "\n", "2", "b", " ", ".">>,
      <<"q">> }

IdentifyElements ==
    { PageElement("text", c, TextBox, pg) : c \in RegexTexts, pg \in {1, 2} }
    \cup { PageElement("image", ImagePayload, b, 1) : b \in ImageBoxes }

MaxElems == 2

NoResult == [text |-> <<>>, json |-> <<>>]

IdentifyIdle ==
    /\ id_elements = <<>>
    /\ id_content = <<>>
    /\ id_result = NoResult
    /\ id_calls = 0
    /\ id_problems = [list |-> <<>>]
    /\ id_pc = "idle"

IdentifyInit ==
    /\ id_elements \in SeqsUpTo(IdentifyElements, MaxElems)
    /\ id_content = <<>>
    /\ id_result = NoResult
    /\ id_calls = 0
    /\ id_problems = [list |-> <<>>]
    /\ id_pc = "sort"

\* one entry of the request per element: its text, or its image as a URL
build_multimodal_content(elements) ==
    [k \in 1..Len(elements) |->
        IF elements[k].type = "text"
        THEN [type |-> "text", payload |-> elements[k].content]
        ELSE [type |-> "image_url", payload |-> elements[k].content]]

\* elements.sort(...), in place, and the content rendered from the result
IdentifySort ==
    /\ id_pc = "sort"
    /\ id_elements' = SortElements(id_elements)
    /\ id_content' = build_multimodal_content(SortElements(id_elements))
    /\ id_pc' = "call"
    /\ UNCHANGED <<id_result, id_calls, id_problems, identifyOthers>>

\* result = self.safe_api_call(messages)
IdentifyCall ==
    /\ id_pc = "call"
    /\ \E r \in StructResponses : id_result' = r
    /\ id_calls' = id_calls + 1
    /\ id_pc' = "parse"
    /\ UNCHANGED <<id_elements, id_content, id_problems, identifyOthers>>

\* the try block and, when it raises, the except block
IdentifyParse ==
    /\ id_pc = "parse"
    /\ id_problems' = IF identify_try(id_result).raised THEN identify_fallback(id_elements)
                      ELSE identify_try(id_result).value
    /\ id_pc' = "done"
    /\ UNCHANGED <<id_elements, id_content, id_result, id_calls, identifyOthers>>

---------------------------------------------------------------------------
(* Element matching: match_questions_with_elements, smart_infer_elements *)

IsInt(x) == "int" \in DOMAIN x

\* int(p) succeeds on a numeric string
IsNumStr(x) == "numstr" \in DOMAIN x

\* `a in b` on strings: a occurs in b as a contiguous run
IsSubstring(a, b) ==
    \E k \in 0..(Len(b) - Len(a)) : SubSeq(b, k + 1, k + Len(a)) = a

\* the pages one declared page p adds to page_range
PageWindowOf(p) ==
    IF IsInt(p) THEN {[int |-> p.int - 1], [int |-> p.int], [int |-> p.int + 1]}
    ELSE IF IsNumStr(p)
         THEN {[int |-> p.numstr - 1], [int |-> p.numstr], [int |-> p.numstr + 1]}
         ELSE {p}

page_range(question_pages) ==
    UNION {PageWindowOf(question_pages[k]) : k \in 1..Len(question_pages)}

RECURSIVE Filter(_, _)
Filter(s, keep) ==
    IF s = <<>> THEN <<>>
    ELSE (IF Head(s) \in keep THEN <<Head(s)>> ELSE <<>>) \o Filter(Tail(s), keep)

\* the mutant: only the declared pages themselves are candidates
candidate_elements_same_page(question_pages, elements) ==
    Filter(elements,
           {e \in {elements[k] : k \in 1..Len(elements)} :
               \E k \in 1..Len(question_pages) :
                   /\ IsInt(question_pages[k])
                   /\ question_pages[k].int = e.page_num})

\* [e for e in elements if e.page_num in page_range]
candidate_elements(question_pages, elements) ==
    Filter(elements,
           {e \in {elements[k] : k \in 1..Len(elements)} :
               [int |-> e.page_num] \in page_range(question_pages)})

\* the test that appends a candidate to `related`
infer_keeps(element, question_text) ==
    \/ element.type \in ImageTypes
    \/ /\ element.type = "text"
       /\ question_text # <<>>
       /\ Strip(question_text) # <<>>
       /\ IsSubstring(question_text, element.content)

CandidateCap == 3

smart_infer_elements(question_info, elements) ==
    LET question_text  == Get(question_info, "text", <<>>)
        question_pages == Get(question_info, "pages", <<[int |-> 1]>>)
        candidates     == candidate_elements(question_pages, elements)
        related        == Filter(candidates,
                                 {e \in {candidates[k] : k \in 1..Len(candidates)} :
                                     infer_keeps(e, question_text)})
    IN  IF related # <<>> THEN related
        ELSE SubSeq(candidates, 1,
                    IF Len(candidates) < CandidateCap THEN Len(candidates)
                    ELSE CandidateCap)

\* `0 <= idx < len(elements)` raises TypeError on an index that is no number
resolve_raises(indices) == \E k \in 1..Len(indices) : ~IsInt(indices[k])

\* the loop that maps the oracle's indices to elements, dropping the others
RECURSIVE resolve_indices(_, _)
resolve_indices(indices, elements) ==
    IF indices = <<>> THEN <<>>
    ELSE (IF 0 <= Head(indices).int /\ Head(indices).int < Len(elements)
          THEN <<elements[Head(indices).int + 1]>> ELSE <<>>)
         \o resolve_indices(Tail(indices), elements)

\* [e.content for e in related if e.type in ["image", "page_image"]]
image_contents(related) ==
    LET imgs == Filter(related, {e \in {related[k] : k \in 1..Len(related)} :
                                    e.type \in ImageTypes})
    IN  [k \in 1..Len(imgs) |-> imgs[k].content]

\* the body of `for sub in prob.get("subquestions", [])`: the Question built
match_sub(sub, elements) ==
    LET resolved == resolve_indices(Get(sub, "related_elements", <<>>), elements)
        related  == IF resolved = <<>> THEN smart_infer_elements(sub, elements)
                    ELSE resolved
    IN  [ id               |-> Get(sub, "id", <<>>),
          text             |-> Get(sub, "text", <<>>),
          images           |-> image_contents(related),
          page_nums        |-> Get(sub, "pages", <<>>),
          related_elements |-> related ]

\* `if e not in combined_elements: combined_elements.append(e)`
RECURSIVE append_unseen(_, _)
append_unseen(combined, es) ==
    IF es = <<>> THEN combined
    ELSE append_unseen(
             IF \E k \in 1..Len(combined) : combined[k] = Head(es) THEN combined
             ELSE Append(combined, Head(es)),
             Tail(es))

RECURSIVE combine_elements(_, _)
combine_elements(combined, subquestions_objs) ==
    IF subquestions_objs = <<>> THEN combined
    ELSE combine_elements(append_unseen(combined, Head(subquestions_objs).related_elements),
                          Tail(subquestions_objs))

IdxChars == <<"0", "1", "2", "3", "4", "5", "6", "7", "8", "9">>

\* an entry of problems_info the loop body cannot process: prob.get or
\* sub.get on a non-dict, or an index that is no number
match_problem_raises(prob) ==
    \/ ~IsDict(prob)
    \/ resolve_raises(Get(prob, "related_elements", <<>>))
    \/ LET subs == Get(prob, "subquestions", <<>>)
       IN  \E k \in 1..Len(subs) :
               \/ ~IsDict(subs[k])
               \/ resolve_raises(Get(subs[k], "related_elements", <<>>))

\* the body of `for p_idx, prob in enumerate(problems_info)`: problem_obj
match_problem(prob, p_idx, elements) ==
    LET subs == Get(prob, "subquestions", <<>>)
        subquestions_objs == [k \in 1..Len(subs) |-> match_sub(subs[k], elements)]
        prob_related_elements ==
            resolve_indices(Get(prob, "related_elements", <<>>), elements)
    IN  [ id               |-> Get(prob, "id", <<"p", IdxChars[p_idx + 1]>>),
          text             |-> Get(prob, "text", <<>>),
          pages            |-> Get(prob, "pages", <<>>),
          related_elements |-> combine_elements(prob_related_elements, subquestions_objs),
          subquestions     |-> subquestions_objs ]

MatchIdle ==
    /\ mt_problems_info = [list |-> <<>>]
    /\ mt_elements = <<>>
    /\ mt_i = 0
    /\ mt_matched = <<>>
    /\ mt_pc = "idle"

\* --- the inputs of the matching specification
ElemsOnPage(p) ==
    {PageElement("text", c, TextBox, p) : c \in TextContents}
    \cup {PageElement(t, ImagePayload, b, p) : t \in ImageTypes, b \in ImageBoxes}

\* four elements on pages 1, 2, 2, 3 in sorted order, those of page 2 being
\* one text and one embedded image
ScenarioElements ==
    { es \in { <<a, b, c, d>> : a \in ElemsOnPage(1), b \in ElemsOnPage(2),
                                c \in ElemsOnPage(2), d \in ElemsOnPage(3) } :
        /\ IsSorted(es)
        /\ {es[2].type, es[3].type} = {"text", "image"} }

\* a subquestion of page 2; every key but the id may be absent
ScenarioSubs ==
    { [id |-> <<"1", "a">>, pages |-> <<pg>>] @@ t @@ r :
        pg \in {[int |-> 2], [numstr |-> 2]},
        t  \in {<<>>, [text |-> <<>>], [text |-> <<" ">>], [text |-> <<"q">>]},
        r  \in {<<>>, [related_elements |-> <<>>], [related_elements |-> <<[int |-> 9]>>],
                [related_elements |-> <<[int |-> 1]>>]} }

ScenarioInfos ==
    { [list |-> <<[id |-> <<"1">>, subquestions |-> <<sub>>]>>] : sub \in ScenarioSubs }

\* index lists as the oracle may give them: repeated, out of range, negative
IndexLists ==
    { <<>>, <<[int |-> 0]>>, <<[int |-> 0], [int |-> 0]>>, <<[int |-> 2], [int |-> 0]>>,
      <<[int |-> 1], [int |-> 9]>>, <<[int |-> -1], [int |-> 3]>> }

\* a problem with its own indices and two subquestions with theirs
IndexedInfos ==
    { [list |-> <<[id |-> <<"1">>, related_elements |-> own,
                   subquestions |->
                       << [id |-> <<"1", "a">>, related_elements |-> first],
                          [id |-> <<"1", "b">>, related_elements |-> second] >>]>>] :
          own \in IndexLists,
          first \in {<<[int |-> 1]>>, <<[int |-> 1], [int |-> 1]>>, <<[int |-> 9]>>},
          second \in {<<[int |-> 0], [int |-> 1]>>, <<[int |-> 3]>>} }

\* hierarchies the loop body cannot process
MalformedInfos ==
    { [str |-> <<"a", "b">>],
      [list |-> <<NonObject>>],
      [list |-> <<[id |-> <<"1">>, subquestions |-> <<NonObject>>]>>],
      [list |-> <<[id |-> <<"1">>, related_elements |-> <<[str |-> <<"x">>]>>,
                   subquestions |-> <<[id |-> <<"1", "a">>]>>]>>],
      [list |-> <<[id |-> <<"1">>,
                   subquestions |-> <<[id |-> <<"1", "a">>,
                                       related_elements |-> <<[str |-> <<"x">>]>>]>>]>>] }

MatchInit ==
    /\ mt_elements \in ScenarioElements
    /\ mt_problems_info \in ScenarioInfos \cup IndexedInfos \cup MalformedInfos
    /\ mt_i = 0
    /\ mt_matched = <<>>
    /\ mt_pc = "loop"

\* the mutant: an entry without subquestions is passed over
MatchIterSkipsEmpty ==
    /\ mt_pc = "loop"
    /\ mt_i < Len(Items(mt_problems_info))
    /\ ~match_problem_raises(Items(mt_problems_info)[mt_i + 1])
    /\ mt_matched' =
          IF Get(Items(mt_problems_info)[mt_i + 1], "subquestions", <<>>) = <<>>
          THEN mt_matched
          ELSE Append(mt_matched,
                      match_problem(Items(mt_problems_info)[mt_i + 1], mt_i, mt_elements))
    /\ mt_i' = mt_i + 1
    /\ UNCHANGED <<mt_problems_info, mt_elements, mt_pc, matchOthers>>

\* one iteration of the loop over problems_info
MatchIter ==
    /\ mt_pc = "loop"
    /\ mt_i < Len(Items(mt_problems_info))
    /\ ~match_problem_raises(Items(mt_problems_info)[mt_i + 1])
    /\ mt_matched' =
          Append(mt_matched, match_problem(Items(mt_problems_info)[mt_i + 1], mt_i, mt_elements))
    /\ mt_i' = mt_i + 1
    /\ UNCHANGED <<mt_problems_info, mt_elements, mt_pc, matchOthers>>

\* an iteration that raises AttributeError or TypeError
MatchRaise ==
    /\ mt_pc = "loop"
    /\ mt_i < Len(Items(mt_problems_info))
    /\ match_problem_raises(Items(mt_problems_info)[mt_i + 1])
    /\ mt_pc' = "raised"
    /\ UNCHANGED <<mt_problems_info, mt_elements, mt_i, mt_matched, matchOthers>>

MatchReturn ==
    /\ mt_pc = "loop"
    /\ mt_i = Len(Items(mt_problems_info))
    /\ mt_pc' = "done"
    /\ UNCHANGED <<mt_problems_info, mt_elements, mt_i, mt_matched, matchOthers>>

---------------------------------------------------------------------------
(* Answer aggregation: answer_questions *)

\* the truth value of a string or None
PyTruthy(x) == x # <<>> /\ x # PyNone

\* the except block: the raw response as the answer of every subquestion
answers_of_raw_text(ai_resp, subqs) ==
    [ parsed_answers |->
        [list |-> [k \in 1..Len(subqs) |->
                      [sub_id |-> subqs[k].id, answer |-> ai_resp.text, reason |-> <<>>]]],
      model_problem_text |-> JNull ]

\* the try block and, when it raises, the except block
parse_answers(ai_resp, subqs) ==
    IF invalid_return(ai_resp.text) THEN answers_of_raw_text(ai_resp, subqs)
    ELSE IF json_loads(select_json_str(ai_resp.text)) = "error"
         THEN answers_of_raw_text(ai_resp, subqs)
    ELSE IF json_loads(select_json_str(ai_resp.text)) = "other"
         THEN [parsed_answers |-> [list |-> <<>>], model_problem_text |-> JNull]
    ELSE IF ~HasLen(Get(ai_resp.json, "answers", [list |-> <<>>]))
         THEN answers_of_raw_text(ai_resp, subqs)
    ELSE [ parsed_answers     |-> Get(ai_resp.json, "answers", [list |-> <<>>]),
           model_problem_text |-> Get(ai_resp.json, "problem_text", JNull) ]

\* ans.get("sub_id") or (subqs[idx].id if idx < len(subqs) else None)
resolve_sub_id(ans, idx, subqs) ==
    IF PyTruthy(Get(ans, "sub_id", PyNone)) THEN ans.sub_id
    ELSE IF idx < Len(subqs) THEN subqs[idx + 1].id
    ELSE PyNone

NoQuestion == [none |-> TRUE]

\* the mutant: the subquestion at the same index, whatever the id
find_question_by_position(sub_id, idx, subqs) ==
    IF idx < Len(subqs) THEN subqs[idx + 1] ELSE NoQuestion

\* sq_obj: the first subquestion with that id, else the one at the same index
find_question(sub_id, idx, subqs) ==
    IF PyTruthy(sub_id) /\ \E k \in 1..Len(subqs) : subqs[k].id = sub_id
    THEN subqs[CHOOSE k \in 1..Len(subqs) :
                   subqs[k].id = sub_id /\ \A j \in 1..(k - 1) : subqs[j].id # sub_id]
    ELSE IF idx < Len(subqs) THEN subqs[idx + 1]
    ELSE NoQuestion

\* the record appended for the entry `ans` at index idx
answer_record(prob_id, ans, idx, subqs) ==
    LET sub_id == resolve_sub_id(ans, idx, subqs)
        sq_obj == find_question(sub_id, idx, subqs)
    IN  [ problem_id |-> prob_id,
          sub_id     |-> sub_id,
          sub_text   |-> IF sq_obj = NoQuestion THEN <<>> ELSE sq_obj.text,
          sub_images |-> IF sq_obj = NoQuestion THEN <<>> ELSE sq_obj.images,
          answer     |-> Get(ans, "answer", PyNone),
          reason     |-> Get(ans, "reason", <<>>) ]

\* the placeholder of a subquestion
empty_record(prob_id, sq) ==
    [ problem_id |-> prob_id, sub_id |-> sq.id, sub_text |-> sq.text,
      sub_images |-> sq.images, answer |-> <<>>, reason |-> <<>> ]

\* `if not subresults and subqs`: placeholders only when nothing was recorded
backfill(prob_id, subresults, subqs) ==
    IF subresults = <<>> /\ subqs # <<>>
    THEN [k \in 1..Len(subqs) |-> empty_record(prob_id, subqs[k])]
    ELSE subresults

\* ans.get raises AttributeError on an entry of the answers that is no object
align_raises(parsed_answers) ==
    \E k \in 1..Len(Items(parsed_answers)) : ~IsDict(Items(parsed_answers)[k])

\* model_problem_text.strip() raises AttributeError on a truthy non-string
final_text_raises(model_problem_text) ==
    Truthy(model_problem_text) /\ ~IsStr(model_problem_text)

\* model_problem_text if (model_problem_text and model_problem_text.strip())
\* else prob_text
final_problem_text(model_problem_text, prob_text) ==
    IF Truthy(model_problem_text) /\ Strip(model_problem_text.str) # <<>>
    THEN model_problem_text.str
    ELSE prob_text

\* the entry of all_results for one problem, given the oracle's response
problem_result(prob, ai_resp) ==
    LET subqs      == prob.subquestions
        parsed     == parse_answers(ai_resp, subqs)
        entries    == Items(parsed.parsed_answers)
        subresults == [k \in 1..Len(entries) |->
                          answer_record(prob.id, entries[k], k - 1, subqs)]
    IN  [ problem_id       |-> prob.id,
          problem_text     |-> final_problem_text(parsed.model_problem_text, prob.text),
          num_subquestions |-> Len(subqs),
          subanswers       |-> backfill(prob.id, subresults, subqs) ]

problem_raises(prob, ai_resp) ==
    \/ align_raises(parse_answers(ai_resp, prob.subquestions).parsed_answers)
    \/ final_text_raises(parse_answers(ai_resp, prob.subquestions).model_problem_text)

\* match_questions_with_elements on a hierarchy it can process
match_all(problems_info, elements) ==
    [k \in 1..Len(problems_info) |-> match_problem(problems_info[k], k - 1, elements)]

\* --- the inputs of the answer-aggregation specification
Ans(sid, a) == [sub_id |-> sid, answer |-> <<a>>, reason |-> <<"r">>]

AnswerPayloads ==
    { [problem_id |-> <<"1">>, problem_text |-> [str |-> <<"p">>],
       answers |-> [list |-> <<Ans(<<"1", "a">>, "x"), Ans(<<"1", "b">>, "y")>>]],
      [problem_text |-> [str |-> <<" ">>],
       answers |-> [list |-> <<Ans(<<"1", "b">>, "y"), Ans(<<"1", "a">>, "x")>>]],
      [answers |-> [list |-> <<Ans(<<"1", "a">>, "x")>>]],
      [answers |-> [list |-> <<Ans(<<"2">>, "x")>>]],
      [answers |-> [list |-> <<[answer |-> <<"x">>], [sub_id |-> <<>>, answer |-> <<"y">>]>>]],
      [answers |-> [list |-> <<Ans(<<"1", "a">>, "x"), Ans(<<"1", "b">>, "y"),
                               Ans(<<"9">>, "z")>>]],
      [answers |-> [list |-> <<>>]],
      [problem_text |-> [str |-> <<"p">>]],
      [problem_text |-> [num |-> 5], answers |-> [list |-> <<>>]],
      [answers |-> [list |-> <<Ans(<<"1", "a">>, "x"), NonObject>>]],
      [answers |-> [str |-> <<"a">>]],
      [answers |-> JNull] }

AnswerResponses ==
    { [text |-> t, json |-> j] :
          t \in {<<"{", "m", "}">>, FencedExample}, j \in AnswerPayloads }
    \cup { [text |-> t, json |-> [answers |-> [list |-> <<Ans(<<"1", "a">>, "x")>>]]] :
               t \in UnparsedTexts }

AnswerElements ==
    << PageElement("text", <<"q">>, TextBox, 1),
       PageElement("image", ImagePayload, <<0, 0, 4, 12>>, 1),
       PageElement("page_image", ImagePayload, <<0, 0, 4, 4>>, 2) >>

AnswerProblemLists ==
    { match_all(ps, AnswerElements) :
          ps \in { <<Prob1>>, <<Prob2>>, <<Prob1, Prob2>>, <<ProbNoSubs>>,
                   <<Prob2, ProbNoSubs>> } }

AnswerIdle ==
    /\ an_problems = <<>>
    /\ an_i = 0
    /\ an_resp = NoResult
    /\ an_calls = 0
    /\ an_results = <<>>
    /\ an_pc = "idle"

AnswerInit ==
    /\ an_problems \in AnswerProblemLists
    /\ an_i = 0
    /\ an_resp = NoResult
    /\ an_calls = 0
    /\ an_results = <<>>
    /\ an_pc = "call"

\* the mutant: a problem without subquestions is answered without a call
AnswerCallSkipsEmpty ==
    /\ an_pc = "call"
    /\ an_i < Len(an_problems)
    /\ \E r \in AnswerResponses : an_resp' = r
    /\ an_calls' = IF an_problems[an_i + 1].subquestions = <<>> THEN an_calls
                   ELSE an_calls + 1
    /\ an_pc' = "parse"
    /\ UNCHANGED <<an_problems, an_i, an_results, answerOthers>>

\* the head of an iteration: the request is built and safe_api_call returns
AnswerCall ==
    /\ an_pc = "call"
    /\ an_i < Len(an_problems)
    /\ \E r \in AnswerResponses : an_resp' = r
    /\ an_calls' = an_calls + 1
    /\ an_pc' = "parse"
    /\ UNCHANGED <<an_problems, an_i, an_results, answerOthers>>

\* the rest of the iteration: parsing, alignment, all_results.append
AnswerParse ==
    /\ an_pc = "parse"
    /\ ~problem_raises(an_problems[an_i + 1], an_resp)
    /\ an_results' = Append(an_results, problem_result(an_problems[an_i + 1], an_resp))
    /\ an_i' = an_i + 1
    /\ an_pc' = "call"
    /\ UNCHANGED <<an_problems, an_resp, an_calls, answerOthers>>

\* the alignment loop raises on an entry that is no object, the final
\* problem text on a problem_text that is no string
AnswerRaise ==
    /\ an_pc = "parse"
    /\ problem_raises(an_problems[an_i + 1], an_resp)
    /\ an_pc' = "raised"
    /\ UNCHANGED <<an_problems, an_i, an_resp, an_calls, an_results, answerOthers>>

AnswerReturn ==
    /\ an_pc = "call"
    /\ an_i = Len(an_problems)
    /\ an_pc' = "done"
    /\ UNCHANGED <<an_problems, an_i, an_resp, an_calls, an_results, answerOthers>>

---------------------------------------------------------------------------
(* The pipeline: process_homework_complete *)

NoReturn == [none |-> TRUE]

StepError(n) == [error |-> TRUE, step |-> n]

PipelineIdle ==
    /\ pl_pc = "idle"
    /\ pl_extracted = <<>>
    /\ pl_ret = NoReturn

\* what extract_page_elements can hand over: a page whose image precedes its
\* numbered text in extraction order, a page of unnumbered text, and a page
\* with two images of equal key and one that sorts before the text
PipelineElementLists ==
    { << PageElement("image", ImagePayload, <<0, 0, 4, 12>>, 1),
         PageElement("text", <<"1", ".", "q", "\n", " ", "1", "a", ")", "z">>, TextBox, 1) >>,
      << PageElement("text", <<"q">>, TextBox, 1) >>,
      << PageElement("text", <<"q">>, TextBox, 1),
         PageElement("image", <<"j">>, <<0, 0, 4, 12>>, 1),
         PageElement("image", ImagePayload, <<0, 0, 4, 12>>, 1),
         PageElement("image", ImagePayload, <<0, 0, 4, 4>>, 1) >> }

PipelineInit ==
    /\ pl_pc = "extract"
    /\ pl_extracted = <<>>
    /\ pl_ret = NoReturn

\* extract_page_elements returned [] (no page element, or extraction failed)
PlExtractFails ==
    /\ pl_pc = "extract"
    /\ pl_ret' = StepError(1)
    /\ pl_pc' = "returned"
    /\ UNCHANGED pl_extracted
    /\ UNCHANGED <<groupVars, jsonVars, apiVars, identifyVars, matchVars, answerVars,
                   handlerVars>>

\* elements is not empty: identify_questions_structure(elements) is entered
PlExtract ==
    /\ pl_pc = "extract"
    /\ \E es \in PipelineElementLists : pl_extracted' = es /\ id_elements' = es
    /\ id_pc' = "sort"
    /\ pl_pc' = "identify"
    /\ UNCHANGED <<id_content, id_result, id_calls, id_problems, pl_ret,
                   groupVars, jsonVars, apiVars, matchVars, answerVars, handlerVars>>

\* `if not problems_info`
PlIdentifyFailed ==
    /\ pl_pc = "identify"
    /\ id_pc = "done"
    /\ ~Truthy(id_problems)
    /\ pl_ret' = StepError(2)
    /\ pl_pc' = "returned"
    /\ UNCHANGED pl_extracted
    /\ UNCHANGED <<groupVars, jsonVars, apiVars, identifyVars, matchVars, answerVars,
                   handlerVars>>

\* match_questions_with_elements(problems_info, elements) is entered, with
\* the list identify_questions_structure has sorted in place
PlMatch ==
    /\ pl_pc = "identify"
    /\ id_pc = "done"
    /\ Truthy(id_problems)
    /\ mt_problems_info' = id_problems
    /\ mt_elements' = id_elements
    /\ mt_pc' = "loop"
    /\ pl_pc' = "match"
    /\ UNCHANGED <<mt_i, mt_matched, pl_extracted, pl_ret,
                   groupVars, jsonVars, apiVars, identifyVars, answerVars, handlerVars>>

\* the exception of match_questions_with_elements propagates
PlMatchRaised ==
    /\ pl_pc = "match"
    /\ mt_pc = "raised"
    /\ pl_pc' = "raised"
    /\ UNCHANGED <<pl_extracted, pl_ret, groupVars, jsonVars, apiVars, identifyVars, matchVars, answerVars,
                   handlerVars>>

\* `if not problems`, else answer_questions(problems) is entered
PlAnswer ==
    /\ pl_pc = "match"
    /\ mt_pc = "done"
    /\ IF mt_matched = <<>>
       THEN /\ pl_ret' = StepError(3)
            /\ pl_pc' = "returned"
            /\ UNCHANGED <<an_problems, an_pc>>
       ELSE /\ an_problems' = mt_matched
            /\ an_pc' = "call"
            /\ pl_pc' = "answer"
            /\ UNCHANGED pl_ret
    /\ UNCHANGED <<an_i, an_resp, an_calls, an_results, pl_extracted,
                   groupVars, jsonVars, apiVars, identifyVars, matchVars, handlerVars>>

\* the exception of answer_questions propagates
PlAnswerRaised ==
    /\ pl_pc = "answer"
    /\ an_pc = "raised"
    /\ pl_pc' = "raised"
    /\ UNCHANGED <<pl_extracted, pl_ret, groupVars, jsonVars, apiVars, identifyVars, matchVars, answerVars,
                   handlerVars>>

\* the success structure
PlReturn ==
    /\ pl_pc = "answer"
    /\ an_pc = "done"
    /\ pl_ret' = [ success        |-> TRUE,
                   total_elements |-> Len(mt_elements),
                   total_problems |-> Len(an_problems),
                   results        |-> an_results ]
    /\ pl_pc' = "returned"
    /\ UNCHANGED pl_extracted
    /\ UNCHANGED <<groupVars, jsonVars, apiVars, identifyVars, matchVars, answerVars,
                   handlerVars>>

---------------------------------------------------------------------------
(* The folder watcher: SmartFileHandler *)

HOMEWORK_FOLDER == "homework"

RESULTS_FOLDER == "results"

PROCESSING_FOLDER == "processing"

SUPPORTED_FORMATS == {".pdf"}

\* a path: folder, stem, suffix, and whether the stem carries a timestamp
FilePath(dir, stem, suffix) == [dir |-> dir, stem |-> stem, suffix |-> suffix, stamped |-> FALSE]

\* Path(HOMEWORK_FOLDER) / PROCESSING_FOLDER / file_path.name
processing_path(file_path) == FilePath(PROCESSING_FOLDER, file_path.stem, file_path.suffix)

\* the result file of save_smart_result
result_file(pdf_path) == FilePath(RESULTS_FOLDER, pdf_path.stem, "_result.json")

\* results_path, with the timestamp when the plain name is taken
results_path(file_path, fs) ==
    IF FilePath(RESULTS_FOLDER, file_path.stem, file_path.suffix) \in fs
    THEN [FilePath(RESULTS_FOLDER, file_path.stem, file_path.suffix) EXCEPT !.stamped = TRUE]
    ELSE FilePath(RESULTS_FOLDER, file_path.stem, file_path.suffix)

\* Path.rename: the outcomes (whether it raised, and the files afterwards); a
\* missing source raises, an existing target is replaced or raises by platform
rename_outcomes(src, dst, fs) ==
    IF src \notin fs THEN {[raised |-> TRUE, fs |-> fs]}
    ELSE IF dst \in fs
         THEN {[raised |-> TRUE, fs |-> fs], [raised |-> FALSE, fs |-> (fs \ {src}) \cup {dst}]}
    ELSE {[raised |-> FALSE, fs |-> (fs \ {src}) \cup {dst}]}

\* the threads that deliver events to the handler
HandlerThreads == {"t1", "t2"}

\* the files dropped into the watched folder
DroppedFiles ==
    { FilePath(HOMEWORK_FOLDER, "a", ".pdf"), FilePath(HOMEWORK_FOLDER, "b", ".pdf") }

\* the paths events name, directories apart
EventPaths ==
    DroppedFiles \cup { FilePath(HOMEWORK_FOLDER, "c", ".txt"),
                        FilePath(PROCESSING_FOLDER, "a", ".pdf") }

CreatedEvents == { [is_directory |-> d, src_path |-> f] : d \in BOOLEAN, f \in EventPaths }

MovedEvents ==
    { [is_directory |-> d, src_path |-> FilePath("elsewhere", f.stem, f.suffix), dest_path |-> f] :
          d \in BOOLEAN, f \in EventPaths }

NoPath == [none |-> TRUE]

HandlerIdle ==
    /\ h_files = {}
    /\ h_fs = {}
    /\ h_pc = [t \in HandlerThreads |-> "idle"]
    /\ h_path = [t \in HandlerThreads |-> NoPath]
    /\ h_exc = [t \in HandlerThreads |-> FALSE]

HandlerInit ==
    /\ h_files = {}
    /\ h_fs = DroppedFiles
    /\ h_pc = [t \in HandlerThreads |-> "idle"]
    /\ h_path = [t \in HandlerThreads |-> NoPath]
    /\ h_exc = [t \in HandlerThreads |-> FALSE]

\* on_created: a directory or an unsupported suffix is ignored, anything
\* else goes to process_file(Path(event.src_path))
OnCreated ==
    \E t \in HandlerThreads, event \in CreatedEvents :
        /\ h_pc[t] = "idle"
        /\ IF event.is_directory \/ event.src_path.suffix \notin SUPPORTED_FORMATS
           THEN UNCHANGED <<h_pc, h_path>>
           ELSE /\ h_pc' = [h_pc EXCEPT ![t] = "check"]
                /\ h_path' = [h_path EXCEPT ![t] = event.src_path]
        /\ UNCHANGED <<h_files, h_fs, h_exc, handlerOthers>>

\* on_moved: the same with Path(event.dest_path)
OnMoved ==
    \E t \in HandlerThreads, event \in MovedEvents :
        /\ h_pc[t] = "idle"
        /\ IF event.is_directory \/ event.dest_path.suffix \notin SUPPORTED_FORMATS
           THEN UNCHANGED <<h_pc, h_path>>
           ELSE /\ h_pc' = [h_pc EXCEPT ![t] = "check"]
                /\ h_path' = [h_path EXCEPT ![t] = event.dest_path]
        /\ UNCHANGED <<h_files, h_fs, h_exc, handlerOthers>>

\* `if str(file_path) in self.processing_files: return`
HandlerCheck ==
    \E t \in HandlerThreads :
        /\ h_pc[t] = "check"
        /\ h_pc' = [h_pc EXCEPT ![t] = IF h_path[t] \in h_files THEN "idle" ELSE "add"]
        /\ UNCHANGED <<h_files, h_fs, h_path, h_exc, handlerOthers>>

\* self.processing_files.add(str(file_path))
HandlerAdd ==
    \E t \in HandlerThreads :
        /\ h_pc[t] = "add"
        /\ h_files' = h_files \cup {h_path[t]}
        /\ h_pc' = [h_pc EXCEPT ![t] = "rename"]
        /\ UNCHANGED <<h_fs, h_path, h_exc, handlerOthers>>

\* `if file_path != processing_path: file_path.rename(processing_path)`
HandlerRename ==
    \E t \in HandlerThreads :
        /\ h_pc[t] = "rename"
        /\ IF h_path[t] = processing_path(h_path[t])
           THEN /\ h_pc' = [h_pc EXCEPT ![t] = "run"]
                /\ UNCHANGED <<h_fs, h_exc>>
           ELSE \E o \in rename_outcomes(h_path[t], processing_path(h_path[t]), h_fs) :
                    /\ h_fs' = o.fs
                    /\ h_exc' = [h_exc EXCEPT ![t] = o.raised]
                    /\ h_pc' = [h_pc EXCEPT ![t] = IF o.raised THEN "finally" ELSE "run"]
        /\ UNCHANGED <<h_files, h_path, handlerOthers>>

\* self.processor.process_homework_complete(processing_path) returns
HandlerRunReturns ==
    \E t \in HandlerThreads :
        /\ h_pc[t] = "run"
        /\ h_pc' = [h_pc EXCEPT ![t] = "save"]
        /\ UNCHANGED <<h_files, h_fs, h_path, h_exc, handlerOthers>>

\* ... or raises, as match_questions_with_elements and answer_questions can
HandlerRunRaises ==
    \E t \in HandlerThreads :
        /\ h_pc[t] = "run"
        /\ h_pc' = [h_pc EXCEPT ![t] = "finally"]
        /\ h_exc' = [h_exc EXCEPT ![t] = TRUE]
        /\ UNCHANGED <<h_files, h_fs, h_path, handlerOthers>>

\* self.save_smart_result(processing_path, result)
HandlerSave ==
    \E t \in HandlerThreads :
        /\ h_pc[t] = "save"
        /\ h_fs' = h_fs \cup {result_file(processing_path(h_path[t]))}
        /\ h_pc' = [h_pc EXCEPT ![t] = "move"]
        /\ UNCHANGED <<h_files, h_path, h_exc, handlerOthers>>

\* ... or open() or json.dump raises in it
HandlerSaveRaises ==
    \E t \in HandlerThreads :
        /\ h_pc[t] = "save"
        /\ h_pc' = [h_pc EXCEPT ![t] = "finally"]
        /\ h_exc' = [h_exc EXCEPT ![t] = TRUE]
        /\ UNCHANGED <<h_files, h_fs, h_path, handlerOthers>>

\* processing_path.rename(results_path)
HandlerMove ==
    \E t \in HandlerThreads :
        /\ h_pc[t] = "move"
        /\ \E o \in rename_outcomes(processing_path(h_path[t]),
                                    results_path(h_path[t], h_fs), h_fs) :
               /\ h_fs' = o.fs
               /\ h_exc' = [h_exc EXCEPT ![t] = o.raised]
        /\ h_pc' = [h_pc EXCEPT ![t] = "finally"]
        /\ UNCHANGED <<h_files, h_path, handlerOthers>>

\* the mutant: the marker is discarded at the end of the try block only
HandlerDiscardOnSuccess ==
    \E t \in HandlerThreads :
        /\ h_pc[t] = "finally"
        /\ h_files' = IF h_exc[t] THEN h_files ELSE h_files \ {h_path[t]}
        /\ h_pc' = [h_pc EXCEPT ![t] = IF h_exc[t] THEN "raised" ELSE "idle"]
        /\ UNCHANGED <<h_fs, h_path, h_exc, handlerOthers>>

\* finally: self.processing_files.discard(str(file_path))
HandlerFinally ==
    \E t \in HandlerThreads :
        /\ h_pc[t] = "finally"
        /\ h_files' = h_files \ {h_path[t]}
        /\ h_pc' = [h_pc EXCEPT ![t] = IF h_exc[t] THEN "raised" ELSE "idle"]
        /\ UNCHANGED <<h_fs, h_path, h_exc, handlerOthers>>

---------------------------------------------------------------------------
(* Specifications: one per component, the other components at rest *)

InitGroup == GroupInit /\ JsonIdle /\ ApiIdle /\ MatchIdle /\ IdentifyIdle /\ AnswerIdle /\ PipelineIdle /\ HandlerIdle

GroupNext == GroupIter \/ GroupReturn

SpecGroup == InitGroup /\ [][GroupNext]_vars

InitJson == JsonInit /\ GroupIdle /\ ApiIdle /\ MatchIdle /\ IdentifyIdle /\ AnswerIdle /\ PipelineIdle /\ HandlerIdle

JsonNext == JsonCheck \/ JsonSelect \/ JsonLoads

SpecJson == InitJson /\ [][JsonNext]_vars

InitApi == ApiInit /\ GroupIdle /\ JsonIdle /\ MatchIdle /\ IdentifyIdle /\ AnswerIdle /\ PipelineIdle /\ HandlerIdle

ApiNext ==
    ApiAttemptSucceeds \/ ApiAttemptFails \/ ApiAfterFailure \/ ApiSleep \/ ApiExhausted

SpecApi == InitApi /\ [][ApiNext]_vars

InitMatch == MatchInit /\ GroupIdle /\ JsonIdle /\ ApiIdle /\ IdentifyIdle /\ AnswerIdle /\ PipelineIdle /\ HandlerIdle

MatchNext == MatchIter \/ MatchRaise \/ MatchReturn

SpecMatch == InitMatch /\ [][MatchNext]_vars

InitIdentify == IdentifyInit /\ GroupIdle /\ JsonIdle /\ ApiIdle /\ MatchIdle /\ AnswerIdle /\ PipelineIdle /\ HandlerIdle

IdentifyNext == IdentifySort \/ IdentifyCall \/ IdentifyParse

SpecIdentify == InitIdentify /\ [][IdentifyNext]_vars

InitAnswer ==
    /\ AnswerInit
    /\ GroupIdle /\ JsonIdle /\ ApiIdle /\ IdentifyIdle /\ MatchIdle /\ PipelineIdle /\ HandlerIdle

AnswerNext == AnswerCall \/ AnswerParse \/ AnswerRaise \/ AnswerReturn

SpecAnswer == InitAnswer /\ [][AnswerNext]_vars

InitPipeline ==
    /\ PipelineInit
    /\ GroupIdle /\ JsonIdle /\ ApiIdle /\ IdentifyIdle /\ MatchIdle /\ AnswerIdle /\ HandlerIdle

PipelineNext ==
    \/ PlExtractFails \/ PlExtract
    \/ IdentifySort \/ IdentifyCall \/ IdentifyParse
    \/ PlIdentifyFailed \/ PlMatch
    \/ MatchIter \/ MatchRaise \/ MatchReturn
    \/ PlMatchRaised \/ PlAnswer
    \/ AnswerCall \/ AnswerParse \/ AnswerRaise \/ AnswerReturn
    \/ PlAnswerRaised \/ PlReturn

SpecPipeline == InitPipeline /\ [][PipelineNext]_vars

InitHandler ==
    /\ HandlerInit
    /\ GroupIdle /\ JsonIdle /\ ApiIdle /\ IdentifyIdle /\ MatchIdle /\ AnswerIdle /\ PipelineIdle

HandlerNext ==
    \/ OnCreated \/ OnMoved
    \/ HandlerCheck \/ HandlerAdd \/ HandlerRename
    \/ HandlerRunReturns \/ HandlerRunRaises
    \/ HandlerSave \/ HandlerSaveRaises \/ HandlerMove \/ HandlerFinally

SpecHandler == InitHandler /\ [][HandlerNext]_vars

---------------------------------------------------------------------------
(* Claims about prefix grouping *)

Prefix(q) == extract_prefix(Get(q, "id", <<>>))

\* the positions of the input at which an output problem begins
RECURSIVE ProblemStarts(_, _)
ProblemStarts(problems, offset) ==
    IF problems = <<>> THEN {}
    ELSE {offset + 1}
         \cup ProblemStarts(Tail(problems), offset + Len(Head(problems).subquestions))

\* C5: group_questions_by_prefix is one left-to-right pass: a new Problem
\* starts exactly at the first fragment and at every fragment whose prefix
\* differs from the previous fragment's, the subquestion lists concatenated
\* are the input fragments in order, no two adjacent Problems share an id,
\* every Problem has empty text, related_elements and pages, and the ids
\* 1, 1a, 2, 2b, 1c yield the Problems 1:[1,1a], 2:[2,2b], 1:[1c].
C5_GroupSinglePass ==
    gq_pc = "done" =>
        LET in  == gq_questions
            out == gq_problems
            n   == Len(in)
        IN  /\ gq_problems = group_questions_by_prefix(in)
            /\ Concat([k \in 1..Len(out) |-> out[k].subquestions])
                 = [k \in 1..n |-> make_sub(in[k])]
            /\ ProblemStarts(out, 0)
                 = {k \in 1..n : k = 1 \/ Prefix(in[k]) # Prefix(in[k - 1])}
            /\ \A k \in 1..Len(out) - 1 : out[k].id # out[k + 1].id
            /\ \A k \in 1..Len(out) :
                 /\ out[k].text = <<>>
                 /\ out[k].related_elements = <<>>
                 /\ out[k].pages = <<>>
                 /\ out[k].subquestions # <<>>
                 /\ \A j \in 1..Len(out[k].subquestions) :
                      extract_prefix(out[k].subquestions[j].id) = out[k].id
            /\ in = ExampleFrags =>
                 [k \in 1..Len(out) |->
                    <<out[k].id, [j \in 1..Len(out[k].subquestions) |->
                                     out[k].subquestions[j].id]>>]
                 = << <<<<"1">>, << <<"1">>, <<"1", "a">> >> >>,
                      <<<<"2">>, << <<"2">>, <<"2", "b">> >> >>,
                      <<<<"1">>, << <<"1", "c">> >> >> >>

\* the example of the specification has been grouped into three Problems
C5_Witness ==
    /\ gq_pc = "done"
    /\ gq_questions = ExampleFrags
    /\ Len(gq_problems) = 3

\* C6: a fragment whose id has no leading digits (a missing or empty id
\* included) becomes a singleton Problem: the Problem that holds it holds no
\* other fragment, whatever precedes or follows it.
C6_NoDigitSingleton ==
    gq_pc = "done" =>
        \A k \in 1..Len(gq_problems) :
            LET subs == gq_problems[k].subquestions
            IN  (\E j \in 1..Len(subs) : LeadingDigits(subs[j].id) = <<>>)
                    => Len(subs) = 1

---------------------------------------------------------------------------
(* Claims about JSON extraction *)

\* the text between the first marker and the next fence of either kind
FirstFenceContents(s) ==
    LET f  == CHOOSE k \in 1..Len(s) :
                  s[k] = FenceJson /\ \A j \in 1..(k - 1) : s[j] # FenceJson
        gs == {k \in (f + 1)..Len(s) : s[k] \in {Fence, FenceJson}}
        g  == IF gs = {} THEN Len(s) + 1 ELSE CHOOSE k \in gs : \A j \in gs : k <= j
    IN  SubSeq(s, f + 1, g - 1)

HasToken(s, tok) == \E k \in 1..Len(s) : s[k] = tok

FirstPos(s, tok) == CHOOSE k \in 1..Len(s) : s[k] = tok /\ \A j \in 1..(k - 1) : s[j] # tok

LastPos(s, tok) == CHOOSE k \in 1..Len(s) : s[k] = tok /\ \A j \in (k + 1)..Len(s) : s[j] # tok

\* two objects one after the other, outside any fence
TwoSeparateObjects(s) ==
    /\ ~HasToken(s, FenceJson)
    /\ \E i, j, k, l \in 1..Len(s) :
          /\ i < j /\ j < k /\ k < l
          /\ s[i] = "{" /\ s[j] = "}" /\ s[k] = "{" /\ s[l] = "}"

\* C10: the extraction selects the contents of the first fenced json block when
\* the marker occurs, otherwise the span from the first { to the last }; the
\* stage ends in its normal path or in its except branch for every input,
\* in the except branch for an empty response, one without braces, one with
\* only a closing brace and two separate objects without a fence (whose
\* selected span covers both objects).
C10_Extraction ==
    LET s == jx_result
    IN  /\ jx_pc \in {"loads", "ok", "except"} /\ ~invalid_return(s) =>
              IF HasToken(s, FenceJson)
              THEN jx_json_str = Strip(FirstFenceContents(s))
              ELSE IF HasToken(s, "{") /\ HasToken(s, "}")
                   THEN jx_json_str = Strip(SubSeq(s, FirstPos(s, "{"), LastPos(s, "}")))
                   ELSE json_loads(jx_json_str) = "error"
        /\ jx_pc \in {"ok", "except"} =>
              /\ s = <<>> => jx_pc = "except"
              /\ ~HasToken(s, "{") /\ ~HasToken(s, FenceJson) => jx_pc = "except"
              /\ TwoSeparateObjects(s) => jx_pc = "except"
              /\ TwoSeparateObjects(s) /\ ~invalid_return(s) =>
                    /\ jx_json_str[1] = "{"
                    /\ Len(jx_json_str) = LastPos(s, "}") - FirstPos(s, "{") + 1
              /\ s = FencedExample => jx_pc = "ok" /\ jx_json_str = <<"{", "m", "}">>
              /\ jx_pc = "ok" => jx_parsed \in {"object", "other"}

\* the two-object example has been selected as one span and has failed to parse
C10_Witness ==
    /\ jx_pc = "except"
    /\ jx_result = TwoObjectsExample
    /\ jx_json_str = SubSeq(TwoObjectsExample, 3, 11)

---------------------------------------------------------------------------
(* Claims about safe_api_call *)

---------------------------------------------------------------------------
(* Claims about smart inference *)

\* the case of the scenario: the one subquestion declares page 2, has an
\* empty text and declares no indices
ScenarioCase ==
    /\ mt_pc = "done"
    /\ mt_problems_info \in ScenarioInfos
    /\ LET sub == mt_problems_info.list[1].subquestions[1]
       IN  /\ Get(sub, "text", <<>>) = <<>>
           /\ Get(sub, "related_elements", <<>>) = <<>>

ScenarioRelated == mt_matched[1].subquestions[1].related_elements

ScenarioPage2Image ==
    IF mt_elements[2].type = "image" THEN mt_elements[2] ELSE mt_elements[3]

\* C9 as claimed: in the scenario the related elements are exactly the
\* embedded image of page 2, whatever the kinds of the elements of pages 1
\* and 3.
C9_ExactlyPage2Image ==
    ScenarioCase => ScenarioRelated = <<ScenarioPage2Image>>

\* C9 as amended: in the scenario the related elements are the image-kind
\* elements among the four, in element order (pages 1 and 3 lie in the page
\* window), and so exactly the embedded image of page 2 when the elements
\* of pages 1 and 3 are texts.
C9_ImagesOfWindow ==
    ScenarioCase =>
        /\ ScenarioRelated =
              Filter(mt_elements, {e \in {mt_elements[k] : k \in 1..4} : e.type \in ImageTypes})
        /\ mt_elements[1].type = "text" /\ mt_elements[4].type = "text" =>
              ScenarioRelated = <<ScenarioPage2Image>>
        /\ mt_matched[1].subquestions[1].images =
              [k \in 1..Len(ScenarioRelated) |-> ScenarioRelated[k].content]

\* the scenario with an image on page 1 and a text on page 3
C9_Witness ==
    /\ ScenarioCase
    /\ mt_elements[1].type \in ImageTypes
    /\ mt_elements[4].type = "text"
    /\ Len(ScenarioRelated) = 2

---------------------------------------------------------------------------
(* Claims about structure inference *)

\* the response is empty, the sentinel, or no JSON object can be parsed from it
IdUnparsed ==
    \/ invalid_return(id_result.text)
    \/ json_loads(select_json_str(id_result.text)) # "object"

IdDeclared == Get(id_result.json, "problems", JNull)

IdQuestions == Get(id_result.json, "questions", JNull)

IdNonEmptyProblems == ~IdUnparsed /\ HasLen(IdDeclared) /\ Truthy(IdDeclared)

IdLegacyList == ~IdUnparsed /\ ~Truthy(IdDeclared) /\ IsList(IdQuestions)

\* C7 as claimed: one oracle call; the regex fallback on an empty, failed or
\* unparseable response; a non-empty problems value returned as it is; and,
\* problems being absent or empty, group_questions_by_prefix(questions)
\* whenever questions is a list.
C7_AsClaimed ==
    id_pc = "done" =>
        /\ id_calls = 1
        /\ IdUnparsed => id_problems = identify_fallback(id_elements)
        /\ IdNonEmptyProblems => id_problems = IdDeclared
        /\ IdLegacyList =>
              id_problems = [list |-> group_questions_by_prefix(IdQuestions.list)]

\* C7 as amended: as claimed, except that a questions list is grouped only
\* when each of its entries is an object; with an entry that is not an
\* object, and with a problems value that has no length, the stage returns
\* the regex fallback. It never ends in an exception.
C7_FallbackOrGrouping ==
    /\ id_pc \in {"idle", "sort", "call", "parse", "done"}
    /\ id_calls <= 1
    /\ id_pc = "done" =>
        /\ id_calls = 1
        /\ IsSorted(id_elements)
        /\ IdUnparsed => id_problems = identify_fallback(id_elements)
        /\ IdNonEmptyProblems => id_problems = IdDeclared
        /\ ~IdUnparsed /\ Truthy(IdDeclared) /\ ~HasLen(IdDeclared) =>
              id_problems = identify_fallback(id_elements)
        /\ IdLegacyList /\ ~group_raises(IdQuestions.list) =>
              id_problems = [list |-> group_questions_by_prefix(IdQuestions.list)]
        /\ IdLegacyList /\ group_raises(IdQuestions.list) =>
              id_problems = identify_fallback(id_elements)
        /\ ~IdUnparsed /\ ~Truthy(IdDeclared) /\ ~IsList(IdQuestions) =>
              id_problems = [list |-> <<>>]

\* the flat list of the example has been grouped into three Problems
C7_Witness ==
    /\ id_pc = "done"
    /\ IdLegacyList
    /\ IdQuestions.list = ExampleFrags
    /\ Len(id_problems.list) = 3

---------------------------------------------------------------------------
(* Claims about answer aggregation *)

\* C1: every result answer_questions emits has exactly as many subanswers
\* as the problem has subquestions, whatever the oracle returned.
C1_OneAnswerPerSubquestion ==
    \A k \in 1..Len(an_results) :
        Len(an_results[k].subanswers) = an_results[k].num_subquestions

---------------------------------------------------------------------------
(* Claims about the pipeline *)

\* C2: process_homework_complete is total: whatever the elements and the
\* oracle's responses, no exception escapes identify_questions_structure,
\* match_questions_with_elements or answer_questions.
C2_NoExceptionEscapes == pl_pc # "raised"

Succeeded == pl_pc = "returned" /\ "success" \in DOMAIN pl_ret

\* C8: answer_questions calls safe_api_call exactly once per Problem, in
\* problem order, whatever the number of subquestions (zero included) and
\* whether or not earlier responses could be parsed; a successful run of the
\* pipeline has made 1 + (number of matched Problems) calls, and a run halted
\* at step 1 has made none.
C8_OneCallPerProblem ==
    /\ an_pc \in {"idle", "call", "done"} => an_calls = an_i
    /\ an_pc \in {"parse", "raised"} => an_calls = an_i + 1
    /\ an_pc = "done" => an_calls = Len(an_problems)
    /\ Succeeded => id_calls + an_calls = 1 + Len(mt_matched)
    /\ (pl_pc = "returned" /\ pl_ret = StepError(1)) => id_calls + an_calls = 0

\* a successful run over two Problems, the second without subquestions, where
\* the first response was the failure sentinel
C8_Witness ==
    /\ Succeeded
    /\ Len(mt_matched) = 2
    /\ mt_matched[2].subquestions = <<>>
    /\ pl_ret.results[1].subanswers # <<>>
    /\ pl_ret.results[1].subanswers[1].answer = Sentinel
    /\ id_calls = 1
    /\ an_calls = 2

---------------------------------------------------------------------------
(* Claims about the folder watcher *)

\* the invocations of process_file that have passed the check for path f and
\* whose pipeline run (the move into the processing folder, then
\* process_homework_complete) is in progress
RunsInProgress(f) == {t \in HandlerThreads : h_path[t] = f /\ h_pc[t] \in {"rename", "run"}}

---------------------------------------------------------------------------
(* Claims about element ordering *)

SameKey(a, b) == ~KeyLess(a, b) /\ ~KeyLess(b, a)

\* out rearranges ex, none added or dropped, equal keys in the order of ex
IsStablePermutation(ex, out) ==
    /\ Len(out) = Len(ex)
    /\ \E pi \in [1..Len(ex) -> 1..Len(ex)] :
           /\ \A k, l \in 1..Len(ex) : k # l => pi[k] # pi[l]
           /\ \A k \in 1..Len(ex) : out[k] = ex[pi[k]]
           /\ \A k, l \in 1..Len(ex) :
                  (k < l /\ SameKey(out[k], out[l])) => pi[k] < pi[l]

\* entry k of the request renders element k
RendersInOrder(content, elements) ==
    /\ Len(content) = Len(elements)
    /\ \A k \in 1..Len(elements) :
           /\ content[k].payload = elements[k].content
           /\ (content[k].type = "text") <=> (elements[k].type = "text")

\* C11: the sequence match_questions_with_elements resolves indices against
\* is the one rendered to the oracle, index by index; it is a permutation of
\* the extracted elements, non-decreasing in (page_num, center_y), with equal
\* keys in extraction order, and sorting it again leaves it unchanged.
C11_SameSortedSequence ==
    (pl_pc \in {"match", "answer", "returned", "raised"} /\ mt_pc # "idle") =>
        /\ RendersInOrder(id_content, mt_elements)
        /\ IsStablePermutation(pl_extracted, mt_elements)
        /\ IsSorted(mt_elements)
        /\ SortElements(mt_elements) = mt_elements

\* the matching of a page whose elements the sort reordered, with two images
\* of equal key, where an oracle-given index was resolved
C11_Witness ==
    /\ pl_pc = "answer"
    /\ Len(mt_elements) = 4
    /\ mt_elements # pl_extracted
    /\ SameKey(mt_elements[3], mt_elements[4])
    /\ mt_elements[3] # mt_elements[4]
    /\ \E k \in 1..Len(mt_problems_info.list) :
           Get(mt_problems_info.list[k], "related_elements", <<>>) # <<>>
    /\ mt_matched[1].related_elements # <<>>

---------------------------------------------------------------------------
(* Claims about the merged related elements *)

\* the elements of s in first-seen order, each once
RECURSIVE FirstSeen(_, _)
FirstSeen(seen, s) ==
    IF s = <<>> THEN seen
    ELSE FirstSeen(IF \E k \in 1..Len(seen) : seen[k] = Head(s) THEN seen
                   ELSE Append(seen, Head(s)),
                   Tail(s))

RECURSIVE ElementsOfSubs(_)
ElementsOfSubs(subs) ==
    IF subs = <<>> THEN <<>> ELSE Head(subs).related_elements \o ElementsOfSubs(Tail(subs))

\* C12: every matched Problem's related_elements holds no element twice and
\* is, in first-seen order, the union of the elements resolved from its own
\* indices followed by those of its subquestions, whatever the index lists
\* (repeated and out-of-range indices included).
C12_RelatedIsUnion ==
    \A k \in 1..Len(mt_matched) :
        LET related == mt_matched[k].related_elements
            own     == resolve_indices(
                           Get(Items(mt_problems_info)[k], "related_elements", <<>>),
                           mt_elements)
        IN  /\ \A i, j \in 1..Len(related) : i # j => related[i] # related[j]
            /\ related = FirstSeen(<<>>, own \o ElementsOfSubs(mt_matched[k].subquestions))

---------------------------------------------------------------------------
(* Claims about the problems emitted downstream *)

\* the subquestions entry k of the hierarchy declares
DeclaredSubs(k) == Get(Items(mt_problems_info)[k], "subquestions", <<>>)

---------------------------------------------------------------------------
(* Claims about answer alignment *)

\* the problem the loop has just finished, and the entries of its answers
LastProblem == an_problems[an_i]

LastEntries == Items(parse_answers(an_resp, LastProblem.subquestions).parsed_answers)

LastRecords == an_results[an_i].subanswers

Aligned == an_pc \in {"call", "done"} /\ an_i > 0 /\ LastEntries # <<>>

\* the sub_id of entry i (from 1): the entry's own, else that of subquestion i
SubIdOf(i) ==
    IF "sub_id" \in DOMAIN LastEntries[i] /\ LastEntries[i].sub_id \notin {<<>>, PyNone}
    THEN LastEntries[i].sub_id
    ELSE IF i <= Len(LastProblem.subquestions) THEN LastProblem.subquestions[i].id
    ELSE PyNone

HasId(sid) == \E j \in 1..Len(LastProblem.subquestions) : LastProblem.subquestions[j].id = sid

FirstWithId(sid) ==
    LastProblem.subquestions[
        CHOOSE j \in 1..Len(LastProblem.subquestions) :
            /\ LastProblem.subquestions[j].id = sid
            /\ \A h \in 1..(j - 1) : LastProblem.subquestions[h].id # sid]

NoneActive == \A t \in HandlerThreads : h_pc[t] \in {"idle", "raised"}

\* C15: process_file releases its marker on every exit path: a path is in
\* processing_files only while an invocation that added it is still inside
\* the try block, so the set is empty whenever no invocation is active and a
\* later event for the path is not rejected.
C15_MarkerReleased ==
    /\ \A f \in h_files :
           \E t \in HandlerThreads :
               h_path[t] = f /\ h_pc[t] \in {"rename", "run", "save", "move", "finally"}
    /\ NoneActive => h_files = {}

\* two invocations for one path have ended by an exception, one of them
\* raised after the file move; nothing is active and the set is empty
C15_Witness ==
    /\ NoneActive
    /\ h_files = {}
    /\ \E t, u \in HandlerThreads :
           /\ h_pc[t] = "raised"
           /\ processing_path(h_path[t]) \in h_fs
           /\ u # t
           /\ h_path[u] = h_path[t]
           /\ h_pc[u] = "raised"

====
